---- MODULE Spec2Model ----
(***************************************************************************)
(* A model of the Nissan scraper scripts: the selector fallback loops of   *)
(* the car-list and trim scrapers, the per-page card loop of               *)
(* CarListProcessor, the multi-unit run loops and their entry points, the  *)
(* click routines of BuildConfigurator / DynamicBuildConfigurator and the  *)
(* icon-checking clicker of SmartCardButtonClicker.                        *)
(*                                                                         *)
(* The browser is the environment: the outcome of every query made to it   *)
(* (find_element raising, the text / href / src of the element found, a    *)
(* click raising) is an input drawn from a small set.                      *)
(***************************************************************************)
EXTENDS Integers, Sequences, FiniteSets, TLC

VARIABLES
    \* ---- selector fallback loops (one resolution at a time)
    target,         \* which logical target was resolved last
    outs,           \* the outcome of the query of each selector, in declared order
    result,         \* what the loop left in the variable it fills
    \* ---- CarListProcessor.scrape_car_details_without_clicks (one page)
    tpc,            \* position in the handler
    trim_cards,     \* the cards returned by find_trim_cards_without_clicks
    card_idx,       \* index of the card being processed (enumerate(..., 1))
    trim_info,      \* the record being built for the current card
    trim_data,      \* the list returned for the page
    now,            \* time.time(), read by the unique-id fallback
    cardFailed,     \* fields of the current card for which no selector satisfied
    lastOutcome,    \* how the card processed last ended: "recorded", "dropped" or "raised"
    escaped,        \* an exception left the name resolution block instead of a value
    \* ---- the entry points and their multi-unit run loops
    entry,          \* the entry point that was started
    loop,           \* the run loop the entry point is in
    rpc,            \* "idle", "running", "done" (returned), "top" (interrupt handled
                    \* by the entry point), "died" (interrupt left the entry point)
                    \* or "cancelled" (the user did not confirm)
    browser,        \* "none", "open" or "closed" (close() was called)
    units,          \* number of units the loop iterates over
    unit_idx,       \* units processed so far
    collected,      \* in memory: the units whose record the loop has appended
    disk,           \* the loop's output file: the units whose record it holds
    interrupted,    \* a KeyboardInterrupt has been delivered
    afterInt,       \* a unit was processed after a KeyboardInterrupt was delivered
    unit_links,     \* the page_link of each unit of the loop's input list ('' when it has none)
    attempted_units,      \* the units whose page the loop went on to scrape, in order
    partial,        \* the units that failed after part of their data had been produced
    processed_car_links,    \* CarListProcessor.processed_car_links
    successful,     \* the `successful` counter of the loop's summary
    failed,         \* the `failed` counter of the loop's summary
    confirm,        \* the answer to "Continue? (yes/no)" as the entry point read it
    \* ---- the click passes of BuildConfigurator / DynamicBuildConfigurator
    cpass,          \* the pass that is running
    visited,        \* the elements the pass has iterated over
    processed_button_ids,   \* BuildConfigurator.processed_button_ids
    click_results,  \* tallies of click_main_section_buttons
    accessories_results,    \* tallies of click_accessories_section_buttons
    trace,          \* what the last step of the pass did to the page, in order
    loop_error,     \* the item whose exception left the loop of the pass, if any
    \* ---- SmartCardButtonClicker.click_card_buttons_with_icon_check
    card_results,   \* its tallies
    observed,       \* what the button processed last showed when its icon was checked
    icon_type,      \* how get_button_icon_type classified it
    \* ---- one live card button, classified again and again
    live,           \* what the button shows now: its svg markup and aria-expanded
    calls,          \* the calls of get_button_icon_type made on it, in order
    \* ---- one unit of work: the calls a page routine makes, in order
    routine,        \* the routine that processes the page
    program,        \* the calls the routine makes on this page, as its code orders them
    steps,          \* the calls made so far, each with how it ended
    ustatus         \* "idle", "running", "returned" or "raised" (the routine's handler ran)

locVars  == <<target, outs, result>>
trimVars == <<tpc, trim_cards, card_idx, trim_info, trim_data, now, cardFailed, lastOutcome, escaped>>
runVars  == <<entry, loop, rpc, browser, units, unit_idx, collected, disk, interrupted, afterInt,
              unit_links, attempted_units, partial, processed_car_links, successful, failed,
              confirm>>
iconVars  == <<card_results, observed, icon_type>>
clickVars == <<cpass, visited, processed_button_ids, click_results, accessories_results, trace,
               loop_error, iconVars>>
liveVars  == <<live, calls>>
stepVars  == <<routine, program, steps, ustatus>>
vars     == <<locVars, trimVars, runVars, clickVars, liveVars, stepVars>>

\* what the actions of one part leave alone
exceptLoc   == <<trimVars, runVars, clickVars, liveVars, stepVars>>
exceptTrims == <<locVars, runVars, clickVars, liveVars, stepVars>>
exceptRun   == <<locVars, trimVars, clickVars, liveVars, stepVars>>
exceptClick == <<locVars, trimVars, runVars, liveVars, stepVars>>
exceptLive  == <<locVars, trimVars, runVars, clickVars, stepVars>>
exceptSteps == <<locVars, trimVars, runVars, clickVars, liveVars>>

-----------------------------------------------------------------------------
(* Bounds of the model.                                                    *)

\* number of selectors of a fallback list that are modelled (the code's lists hold 3 to 9)
MaxSel == 3
\* number of selectors of a card-discovery list that are modelled
MaxCardSel == 2
\* number of cards a page query returns at most
MaxCards == 2
\* number of units (cards, cars, trims, build links) a run loop iterates over at most
MaxUnits == 3
\* number of elements a click pass iterates over at most
MaxButtons == 2
\* number of selectors of _click_feature_element that are modelled
MaxClickSel == 2
\* number of times one button is classified
MaxCalls == 2

-----------------------------------------------------------------------------
(* Python values.                                                          *)

\* Python's None (get_attribute of an absent attribute)
None == "<None>"

\* truthiness of a str-or-None value: `if href`, `if src`, `if car_name`
Truthy(v) == v # None /\ v # ""

\* `sub in s` for two strings
Contains(s, sub) ==
    \E i \in 1..(Len(s) - Len(sub) + 1) : SubSeq(s, i, i + Len(sub) - 1) = sub

\* s.startswith(prefix)
StartsWith(s, prefix) ==
    Len(s) >= Len(prefix) /\ SubSeq(s, 1, Len(prefix)) = prefix

IsSpace(c) == c \in {" ", "\n", "\t"}

RECURSIVE LStrip(_)
LStrip(s) ==
    IF s = "" THEN ""
    ELSE IF IsSpace(SubSeq(s, 1, 1)) THEN LStrip(SubSeq(s, 2, Len(s))) ELSE s

RECURSIVE RStrip(_)
RStrip(s) ==
    IF s = "" THEN ""
    ELSE IF IsSpace(SubSeq(s, Len(s), Len(s))) THEN RStrip(SubSeq(s, 1, Len(s) - 1)) ELSE s

\* s.strip()
Strip(s) == RStrip(LStrip(s))

\* ' '.join(s.split()): runs of whitespace become one space, the ends are trimmed
RECURSIVE Squeeze(_)
Squeeze(s) ==
    IF s = "" THEN ""
    ELSE LET c == SubSeq(s, 1, 1)
             r == SubSeq(s, 2, Len(s))
         IN  IF IsSpace(c)
             THEN (IF LStrip(r) = "" THEN "" ELSE " " \o Squeeze(LStrip(r)))
             ELSE c \o Squeeze(r)

JoinSplit(s) == Squeeze(Strip(s))

\* s.split(sep)[0] for a one-character separator
RECURSIVE SplitFirst(_, _)
SplitFirst(s, sep) ==
    IF s = "" THEN ""
    ELSE IF SubSeq(s, 1, 1) = sep THEN ""
    ELSE SubSeq(s, 1, 1) \o SplitFirst(SubSeq(s, 2, Len(s)), sep)

-----------------------------------------------------------------------------
(* Query outcomes.  A query of one selector either raises (find_element    *)
(* found nothing, bad selector, stale scope) or yields the first element   *)
(* that matches, of which the code reads text or attributes.               *)

Miss == [found |-> FALSE]

\* element texts a page may hold (before .strip())
TextVals == {"", "  ", "Altima S", " Kicks SR\n"}

\* href values a page may hold; None is an <a> without href
HrefVals == {None, "mailto:sales@example.com", "mailto:fleet@nissan.com",
             "https://www.nissanusa.com/altima"}

SrcVals == {None, "https://img.example.com/a.jpg"}
SrcsetVals == {None, "b.jpg 1x, c.jpg 2x"}

TextOutcomes == {Miss} \cup {[found |-> TRUE, text |-> t] : t \in TextVals}
HrefOutcomes == {Miss} \cup {[found |-> TRUE, href |-> h] : h \in HrefVals}
ImgOutcomes  == {Miss} \cup {[found |-> TRUE, src |-> a, srcset |-> b] :
                                a \in SrcVals, b \in SrcsetVals}

\* the attributes of a card element that get_card_unique_id_without_clicks reads
CardA == [testid |-> None, id |-> None, data_id |-> None,
          text |-> "Altima S\n$27,000 MSRP", class |-> "sc-hEJUTg ceCyPE x1",
          x |-> 0, y |-> 120]
CardB == [testid |-> "trim-sr", id |-> None, data_id |-> None,
          text |-> " Altima SR\n\n$29,000 MSRP\nAWD", class |-> "sc-hEJUTg ceCyPE",
          x |-> 0, y |-> 520]

\* a card element as find_trim_cards sees it: its attributes and the verdict
\* of is_valid_trim_card_without_clicks.  find_elements returns distinct
\* elements, which may carry equal attributes (a wrapper and its only child).
FoundCards == {[attrs |-> CardA, valid |-> TRUE], [attrs |-> CardB, valid |-> TRUE],
               [attrs |-> CardA, valid |-> FALSE]}

SeqsUpTo(S, n) == UNION {[1..k -> S] : k \in 0..n}

CardsOutcomes == {[raised |-> TRUE]} \cup
                 {[raised |-> FALSE, cards |-> c] : c \in SeqsUpTo(FoundCards, MaxCards)}

\* the same with all cards alike: the fallback loop reads only their verdict
LocatorCardsOutcomes ==
    {q \in CardsOutcomes : ~q.raised => \A k \in 1..Len(q.cards) : q.cards[k].attrs = CardA}

\* the key a record carries while the loop has not set it
Absent == "<absent>"

\* the entry point printed no yes/no prompt
NotAsked == "<not asked>"

\* no exception has left the item loop of the pass
NoError == "<no error>"

-----------------------------------------------------------------------------
(* The selector fallback loops.                                            *)

\* name loop: car_name is overwritten by every element found and the loop
\* breaks at the first non-empty stripped text
RECURSIVE NameLoop(_, _, _)
NameLoop(o, i, car_name) ==
    IF i > Len(o) THEN car_name
    ELSE IF ~o[i].found THEN NameLoop(o, i + 1, car_name)
    ELSE LET t == Strip(o[i].text)
         IN  IF Truthy(t) THEN t ELSE NameLoop(o, i + 1, t)

\* the same loop without its break: the last non-empty text wins
RECURSIVE NameLoopNoBreak(_, _, _)
NameLoopNoBreak(o, i, car_name) ==
    IF i > Len(o) THEN car_name
    ELSE IF ~o[i].found THEN NameLoopNoBreak(o, i + 1, car_name)
    ELSE LET t == Strip(o[i].text)
         IN  NameLoopNoBreak(o, i + 1, IF Truthy(t) THEN t ELSE car_name)

ResolveNameLast(o) == NameLoopNoBreak(o, 1, "")

ResolveName(o) == NameLoop(o, 1, "")

\* price loop: as the name loop, the text cleaned by ' '.join(split()) on a hit
RECURSIVE PriceLoop(_, _, _)
PriceLoop(o, i, price_text) ==
    IF i > Len(o) THEN price_text
    ELSE IF ~o[i].found THEN PriceLoop(o, i + 1, price_text)
    ELSE LET t == Strip(o[i].text)
         IN  IF Truthy(t) THEN JoinSplit(t) ELSE PriceLoop(o, i + 1, t)

ResolvePrice(o) == PriceLoop(o, 1, "")

\* `href and ('nissan' in href or 'http' in href)`
AcceptableHref(href) ==
    Truthy(href) /\ (Contains(href, "nissan") \/ Contains(href, "http"))

\* link loop: page_link is set only by an acceptable href
RECURSIVE LinkLoop(_, _)
LinkLoop(o, i) ==
    IF i > Len(o) THEN ""
    ELSE IF o[i].found /\ AcceptableHref(o[i].href) THEN o[i].href
    ELSE LinkLoop(o, i + 1)

ResolveLink(o) == LinkLoop(o, 1)

\* srcset.split(',')[0].split(' ')[0]
FirstOfSrcset(srcset) == SplitFirst(SplitFirst(srcset, ","), " ")

\* image loop: src, else the first url of srcset; '' when no selector gave either
RECURSIVE ImageLoop(_, _)
ImageLoop(o, i) ==
    IF i > Len(o) THEN ""
    ELSE IF ~o[i].found THEN ImageLoop(o, i + 1)
    ELSE IF Truthy(o[i].src) THEN o[i].src
    ELSE IF Truthy(o[i].srcset) THEN FirstOfSrcset(o[i].srcset)
    ELSE ImageLoop(o, i + 1)

ResolveImage(o) == ImageLoop(o, 1)

\* `spec_text and len(spec_text) < 50`
SpecsLimit == 50

\* specs loop: the key is set only by a non-empty text shorter than 50
RECURSIVE SpecsLoop(_, _)
SpecsLoop(o, i) ==
    IF i > Len(o) THEN Absent
    ELSE IF ~o[i].found THEN SpecsLoop(o, i + 1)
    ELSE LET t == Strip(o[i].text)
         IN  IF Truthy(t) /\ Len(t) < SpecsLimit THEN t ELSE SpecsLoop(o, i + 1)

ResolveSpecs(o) == SpecsLoop(o, 1)

\* the cards of c that is_valid_trim_card_without_clicks accepts, in order
RECURSIVE Validated(_)
Validated(c) ==
    IF c = <<>> THEN <<>>
    ELSE (IF Head(c).valid THEN <<Head(c)>> ELSE <<>>) \o Validated(Tail(c))

\* find_trim_cards_without_clicks: the validated cards of the first selector
\* that has any; a selector whose query raises is skipped
RECURSIVE CardsLoop(_, _)
CardsLoop(o, i) ==
    IF i > Len(o) THEN <<>>
    ELSE IF o[i].raised THEN CardsLoop(o, i + 1)
    ELSE IF o[i].cards # <<>> /\ Validated(o[i].cards) # <<>> THEN Validated(o[i].cards)
    ELSE CardsLoop(o, i + 1)

find_trim_cards_without_clicks(o) == CardsLoop(o, 1)

\* find_trim_cards_alternative_without_clicks: the same loop over its own list
find_trim_cards_alternative_without_clicks(o) == CardsLoop(o, 1)

\* what a fallback list gives when a query error leaves it
Raised == <<[raised |-> TRUE]>>

\* the product cards of scrape_car_list_from_link: the exact selector, then
\* the alternative ones while nothing was found; no query is inside a try of
\* its own, so that a query that raises ends the lookup
RECURSIVE ProductCardsLoop(_, _)
ProductCardsLoop(o, i) ==
    IF i > Len(o) THEN <<>>
    ELSE IF o[i].raised THEN Raised
    ELSE IF o[i].cards # <<>> THEN o[i].cards
    ELSE ProductCardsLoop(o, i + 1)

find_product_cards(o) == ProductCardsLoop(o, 1)

\* BuildConfigurator._extract_model_name: one selector, "Not found" when it raises
NotFound == "Not found"

extract_model_name(q) == IF q.found THEN Strip(q.text) ELSE NotFound

\* trim_info before extract_trim_info_without_clicks has built anything
NoTrimInfo == [card_index |-> 0, card_unique_id |-> Absent, car_name |-> Absent,
               page_link |-> Absent, image_url |-> Absent, price |-> Absent,
               specs |-> Absent]

-----------------------------------------------------------------------------
(* Specification SpecLocator: each fallback loop applied to every          *)
(* combination of query outcomes of its selectors.                         *)

TrimsIdle ==
    /\ tpc = "off"
    /\ trim_cards = <<>>
    /\ card_idx = 0
    /\ trim_info = NoTrimInfo
    /\ trim_data = <<>>
    /\ now = 0
    /\ cardFailed = {}
    /\ lastOutcome = "none"
    /\ escaped = FALSE

LocatorIdle ==
    /\ target = "none"
    /\ outs = <<>>
    /\ result = Absent

RunIdle ==
    /\ entry = "none"
    /\ loop = "none"
    /\ rpc = "idle"
    /\ browser = "none"
    /\ units = 0
    /\ unit_idx = 0
    /\ collected = <<>>
    /\ disk = <<>>
    /\ interrupted = FALSE
    /\ afterInt = FALSE
    /\ unit_links = <<>>
    /\ attempted_units = <<>>
    /\ partial = {}
    /\ processed_car_links = {}
    /\ confirm = NotAsked
    /\ successful = 0
    /\ failed = 0

\* click_results and accessories_results as the passes initialise them
NoClickResults == [clicked |-> 0, skipped_prohibited |-> 0, skipped_feature_sections |-> 0,
                   skipped_accessories |-> 0, skipped_already_processed |-> 0, failed |-> 0]
NoAccessoriesResults == [buttons_clicked |-> 0, buttons_failed |-> 0, containers_processed |-> 0]

NoCardResults == [buttons_with_plus_icon |-> 0, buttons_with_minus_icon |-> 0,
                  buttons_clicked |-> 0, buttons_skipped |-> 0, buttons_failed |-> 0]

\* a button of which nothing has been read
NotObserved == [svg |-> "<not read>", aria |-> "<not read>"]

ClickIdle ==
    /\ card_results = NoCardResults
    /\ observed = NotObserved
    /\ icon_type = "none"
    /\ cpass = "none"
    /\ visited = {}
    /\ processed_button_ids = {}
    /\ click_results = NoClickResults
    /\ accessories_results = NoAccessoriesResults
    /\ trace = <<>>
    /\ loop_error = NoError

StepsIdle ==
    /\ routine = "none"
    /\ program = <<>>
    /\ steps = <<>>
    /\ ustatus = "idle"

LiveIdle ==
    /\ live = NotObserved
    /\ calls = <<>>

InitLocator == LocatorIdle /\ TrimsIdle /\ RunIdle /\ ClickIdle /\ LiveIdle /\ StepsIdle

LocateName ==
    \E o \in [1..MaxSel -> TextOutcomes] :
        /\ target = "none"
        /\ target' = "name"
        /\ outs' = o
        /\ result' = ResolveName(o)
        /\ UNCHANGED exceptLoc

LocatePrice ==
    \E o \in [1..MaxSel -> TextOutcomes] :
        /\ target = "none"
        /\ target' = "price"
        /\ outs' = o
        /\ result' = ResolvePrice(o)
        /\ UNCHANGED exceptLoc

LocateLink ==
    \E o \in [1..MaxSel -> HrefOutcomes] :
        /\ target = "none"
        /\ target' = "link"
        /\ outs' = o
        /\ result' = ResolveLink(o)
        /\ UNCHANGED exceptLoc

LocateImage ==
    \E o \in [1..MaxSel -> ImgOutcomes] :
        /\ target = "none"
        /\ target' = "image"
        /\ outs' = o
        /\ result' = ResolveImage(o)
        /\ UNCHANGED exceptLoc

LocateSpecs ==
    \E o \in [1..MaxSel -> TextOutcomes] :
        /\ target = "none"
        /\ target' = "specs"
        /\ outs' = o
        /\ result' = ResolveSpecs(o)
        /\ UNCHANGED exceptLoc

LocateCards ==
    \E o \in [1..MaxCardSel -> LocatorCardsOutcomes] :
        /\ target = "none"
        /\ target' = "cards"
        /\ outs' = o
        /\ result' = find_trim_cards_without_clicks(o)
        /\ UNCHANGED exceptLoc

LocateProductCards ==
    \E o \in [1..MaxCardSel -> LocatorCardsOutcomes] :
        /\ target = "none"
        /\ target' = "product_cards"
        /\ outs' = o
        /\ result' = find_product_cards(o)
        /\ UNCHANGED exceptLoc

LocateModelName ==
    \E q \in TextOutcomes :
        /\ target = "none"
        /\ target' = "model_name"
        /\ outs' = <<q>>
        /\ result' = extract_model_name(q)
        /\ UNCHANGED exceptLoc

NextLocator ==
    \/ LocateName
    \/ LocatePrice
    \/ LocateLink
    \/ LocateImage
    \/ LocateSpecs
    \/ LocateCards
    \/ LocateProductCards
    \/ LocateModelName

SpecLocator == InitLocator /\ [][NextLocator]_vars

-----------------------------------------------------------------------------
(* C1: first match in declared order.                                      *)

\* whether the outcome of one selector satisfies the target's predicate
Satisfies(t, q) ==
    CASE t = "name"  -> q.found /\ Strip(q.text) # ""
      [] t = "price" -> q.found /\ Strip(q.text) # ""
      [] t = "specs" -> q.found /\ Strip(q.text) # "" /\ Len(Strip(q.text)) < SpecsLimit
      [] t = "link"  -> q.found /\ q.href # None /\ q.href # ""
                        /\ (Contains(q.href, "nissan") \/ Contains(q.href, "http"))
      [] t = "image" -> q.found /\ ((q.src # None /\ q.src # "")
                                    \/ (q.srcset # None /\ q.srcset # ""))
      [] t = "cards" -> ~q.raised /\ \E k \in 1..Len(q.cards) : q.cards[k].valid
      [] t = "product_cards" -> ~q.raised /\ q.cards # <<>>
      [] OTHER -> FALSE

\* the value the code takes from a satisfying outcome
ValueFrom(t, q) ==
    CASE t = "name"  -> Strip(q.text)
      [] t = "price" -> JoinSplit(q.text)
      [] t = "specs" -> Strip(q.text)
      [] t = "link"  -> q.href
      [] t = "image" -> IF q.src # None /\ q.src # "" THEN q.src
                        ELSE FirstOfSrcset(q.srcset)
      [] t = "cards" -> Validated(q.cards)
      [] t = "product_cards" -> q.cards

FallbackTargets == {"name", "price", "specs", "link", "image", "cards"}

\* C1: whenever some selector of the list satisfies, the result is the value
\* of the first one in declared order that does, whatever later selectors
\* would give.
C1_FirstMatchWins ==
    target \in FallbackTargets =>
        \A i \in 1..Len(outs) :
            (Satisfies(target, outs[i])
             /\ \A j \in 1..(i - 1) : ~Satisfies(target, outs[j]))
            => result = ValueFrom(target, outs[i])

\* an earlier and a later selector both satisfy with different values, and
\* the earlier one's value is the result
C1_Witness ==
    /\ target = "name"
    /\ Len(outs) >= 2
    /\ Satisfies("name", outs[1])
    /\ Satisfies("name", outs[2])
    /\ ValueFrom("name", outs[1]) # ValueFrom("name", outs[2])
    /\ result = ValueFrom("name", outs[1])

-----------------------------------------------------------------------------
(* C12: a query that raises is a miss.                                     *)

\* the query of the selector raised: find_element raises when it finds
\* nothing, find_elements on a query error
QueryRaised(t, q) == IF t \in {"cards", "product_cards"} THEN q.raised ELSE ~q.found

\* C12: when the query of a selector raises and a later selector is the
\* first of the list that satisfies, the result is that selector's value.
C12_QueryErrorIsMiss ==
    target \in FallbackTargets \cup {"product_cards"} =>
        \A i \in 1..Len(outs) :
            (/\ Satisfies(target, outs[i])
             /\ \A j \in 1..(i - 1) : ~Satisfies(target, outs[j])
             /\ \E j \in 1..(i - 1) : QueryRaised(target, outs[j]))
            => result = ValueFrom(target, outs[i])

-----------------------------------------------------------------------------
(* CarListProcessor: the unique id of a card.                              *)

\* s.split(sep) for a one-character separator
RECURSIVE Split(_, _)
Split(s, sep) ==
    IF s = "" THEN <<"">>
    ELSE LET rest == Split(SubSeq(s, 2, Len(s)), sep)
         IN  IF SubSeq(s, 1, 1) = sep THEN <<"">> \o rest
             ELSE <<SubSeq(s, 1, 1) \o Head(rest)>> \o Tail(rest)

\* s.split(): the whitespace-separated words of s
Words(s) == IF JoinSplit(s) = "" THEN <<>> ELSE Split(JoinSplit(s), " ")

\* [line.strip() for line in parts if line.strip()]
RECURSIVE StrippedNonEmpty(_)
StrippedNonEmpty(parts) ==
    IF parts = <<>> THEN <<>>
    ELSE (IF Strip(Head(parts)) # "" THEN <<Strip(Head(parts))>> ELSE <<>>)
         \o StrippedNonEmpty(Tail(parts))

\* [cls for cls in parts if len(cls) > 3]
ClassMinLen == 3

RECURSIVE SpecificClasses(_)
SpecificClasses(parts) ==
    IF parts = <<>> THEN <<>>
    ELSE (IF Len(Head(parts)) > ClassMinLen THEN <<Head(parts)>> ELSE <<>>)
         \o SpecificClasses(Tail(parts))

\* sep.join(parts)
RECURSIVE Join(_, _)
Join(parts, sep) ==
    IF parts = <<>> THEN ""
    ELSE IF Len(parts) = 1 THEN Head(parts)
    ELSE Head(parts) \o sep \o Join(Tail(parts), sep)

\* parts[:n] and s[:n]
Take(q, n) == SubSeq(q, 1, IF Len(q) < n THEN Len(q) ELSE n)

\* lines[:2], specific_classes[:2]
IdParts == 2
\* text_id[:50]
TextIdLimit == 50

\* Python's hash() of a str: equal strings have equal hashes within one run;
\* the model keeps the string, so distinct strings never collide
hash(s) == "#" \o s

\* the parts of the id, in the order in which the code appends them
TestidPart(a)  == IF Truthy(a.testid) THEN <<"testid:" \o a.testid>> ELSE <<>>
ElemIdPart(a)  == IF Truthy(a.id) THEN <<"id:" \o a.id>> ELSE <<>>
DataIdPart(a)  == IF Truthy(a.data_id) THEN <<"data-id:" \o a.data_id>> ELSE <<>>
TextPart(a) ==
    LET lines == StrippedNonEmpty(Split(Strip(a.text), "\n"))
    IN  IF lines # <<>>
        THEN <<"text:" \o hash(Take(Join(Take(lines, IdParts), "_"), TextIdLimit))>>
        ELSE <<>>
ClassPart(a) ==
    LET classes == IF a.class = None THEN "" ELSE a.class
        specific_classes == SpecificClasses(Words(classes))
    IN  IF classes # "" /\ specific_classes # <<>>
        THEN <<"class:" \o hash(Join(Take(specific_classes, IdParts), "_"))>>
        ELSE <<>>
PosPart(a) == <<"pos:" \o ToString(a.x) \o "_" \o ToString(a.y)>>

\* f"card_{time.time()}"
TimeId(t) == "card_" \o ToString(t)

\* get_card_unique_id_without_clicks of a card whose attributes can be read
get_card_unique_id_without_clicks(a) ==
    Join(TestidPart(a) \o ElemIdPart(a) \o DataIdPart(a) \o TextPart(a) \o ClassPart(a)
         \o PosPart(a), "|")

-----------------------------------------------------------------------------
(* Specification SpecTrims: scrape_car_details_without_clicks on one page. *)
(* The page is live: what a card holds when a field is extracted is drawn  *)
(* at that moment, whatever it held when the card was validated.           *)

NameQueries  == {Miss, [found |-> TRUE, text |-> " Altima SV "]}
LinkQueries  == {Miss, [found |-> TRUE, href |-> "mailto:fleet@nissan.com"],
                 [found |-> TRUE, href |-> "https://www.nissanusa.com/altima"]}
ImageQueries == {Miss, [found |-> TRUE, src |-> "https://img.example.com/a.jpg", srcset |-> None]}
PriceQueries == {Miss, [found |-> TRUE, text |-> "$27,000  MSRP"]}
SpecsQueries == {Miss, [found |-> TRUE, text |-> "AWD"]}

AllMiss == [i \in 1..MaxSel |-> Miss]

\* get_card_unique_id_without_clicks tabulated over the cards of the page
CardIds == [a \in {CardA, CardB} |-> get_card_unique_id_without_clicks(a)]

\* the fallback loops tabulated over the query outcomes of a card
CardNames  == [o \in [1..MaxSel -> NameQueries] |-> ResolveName(o)]
CardLinks  == [o \in [1..MaxSel -> LinkQueries] |-> ResolveLink(o)]
CardImages == [o \in [1..MaxSel -> ImageQueries] |-> ResolveImage(o)]
CardPrices == [o \in [1..MaxSel -> PriceQueries] |-> ResolvePrice(o)]
CardSpecs  == [o \in [1..MaxSel -> SpecsQueries] |-> ResolveSpecs(o)]

\* what a card query of the page yields: a raise, or cards that all pass
\* is_valid_trim_card_without_clicks (the filter itself is exercised by LocateCards)
PageCardsOutcomes ==
    {q \in CardsOutcomes : ~q.raised => \A k \in 1..Len(q.cards) : q.cards[k].valid}

\* len(car_name) < 3 fails validation
NameMinLen == 3

\* a validation that also wants an image
validate_trim_data_with_image(t) ==
    /\ t.car_name # Absent /\ Truthy(t.car_name)
    /\ t.page_link # Absent /\ Truthy(t.page_link)
    /\ StartsWith(t.page_link, "http")
    /\ Len(t.car_name) >= NameMinLen
    /\ Truthy(t.image_url)

\* the validation without its link-format test
validate_trim_data_required_only(t) ==
    /\ t.car_name # Absent /\ Truthy(t.car_name)
    /\ t.page_link # Absent /\ Truthy(t.page_link)
    /\ Len(t.car_name) >= NameMinLen

\* CarListProcessor.validate_trim_data
validate_trim_data(t) ==
    /\ t.car_name # Absent /\ Truthy(t.car_name)
    /\ t.page_link # Absent /\ Truthy(t.page_link)
    /\ StartsWith(t.page_link, "http")
    /\ Len(t.car_name) >= NameMinLen

\* `card.text.split('\n')[0] if card.text else f"Car_{card_idx}"`
NameFallback(a, idx) ==
    IF a.text # "" THEN SplitFirst(a.text, "\n") ELSE "Car_" \o ToString(idx)

\* where the card loop goes once card idx is finished
AfterCard(idx) == IF idx < Len(trim_cards) THEN "name" ELSE "done"

InitTrims ==
    /\ LocatorIdle
    /\ RunIdle
    /\ ClickIdle
    /\ LiveIdle
    /\ StepsIdle
    /\ tpc = "start"
    /\ trim_cards = <<>>
    /\ card_idx = 0
    /\ trim_info = NoTrimInfo
    /\ trim_data = <<>>
    /\ now = 0
    /\ cardFailed = {}
    /\ lastOutcome = "none"
    /\ escaped = FALSE

\* driver.get .. find_trim_cards_without_clicks; a raise before the card
\* loop returns []
TrimsDiscover ==
    /\ tpc = "start"
    /\ \/ trim_cards' = <<>> /\ tpc' = "done"
       \/ \E o \in [1..MaxCardSel -> PageCardsOutcomes] :
              LET cards == find_trim_cards_without_clicks(o)
              IN  /\ trim_cards' = cards
                  /\ tpc' = IF cards = <<>> THEN "alt" ELSE "name"
    /\ UNCHANGED <<card_idx, trim_info, trim_data, now, cardFailed, lastOutcome, escaped>>
    /\ UNCHANGED exceptTrims

\* `if not trim_cards: trim_cards = find_trim_cards_alternative_without_clicks()`
TrimsDiscoverAlternative ==
    /\ tpc = "alt"
    /\ \E o \in [1..MaxCardSel -> PageCardsOutcomes] :
        LET cards == find_trim_cards_alternative_without_clicks(o)
        IN  /\ trim_cards' = cards
            /\ tpc' = IF cards = <<>> THEN "done" ELSE "name"
    /\ UNCHANGED <<card_idx, trim_info, trim_data, now, cardFailed, lastOutcome, escaped>>
    /\ UNCHANGED exceptTrims

\* extract_trim_info_without_clicks, up to trim_info['car_name']: the card's
\* unique id, the name loop and its fallback.  Every query of a stale card
\* raises: the id falls back to the clock, the name selectors are skipped and
\* card.text raises out of the fallback, so that the function returns None.
TrimsCardName ==
    /\ tpc = "name"
    /\ card_idx < Len(trim_cards)
    /\ \E stale \in BOOLEAN, o \in [1..MaxSel -> NameQueries] :
        LET idx == card_idx + 1
            a == trim_cards[idx].attrs
            card_id == IF stale THEN TimeId(now) ELSE CardIds[a]
            car_name == CardNames[o]
            started == [NoTrimInfo EXCEPT !.card_index = idx, !.card_unique_id = card_id]
        IN  /\ stale => o = AllMiss
            /\ card_idx' = idx
            /\ now' = IF stale THEN now + 1 ELSE now
            /\ cardFailed' = IF car_name = "" THEN {"car_name"} ELSE {}
            /\ IF stale
               THEN /\ trim_info' = started
                    /\ escaped' = TRUE
                    /\ lastOutcome' = "raised"
                    /\ tpc' = AfterCard(idx)
               ELSE /\ trim_info' = [started EXCEPT !.car_name =
                                        IF car_name = "" THEN NameFallback(a, idx) ELSE car_name]
                    /\ escaped' = FALSE
                    /\ lastOutcome' = "none"
                    /\ tpc' = "link"
    /\ UNCHANGED <<trim_cards, trim_data>>
    /\ UNCHANGED exceptTrims

TrimsCardLink ==
    /\ tpc = "link"
    /\ \E o \in [1..MaxSel -> LinkQueries] :
        LET page_link == CardLinks[o]
        IN  /\ trim_info' = [trim_info EXCEPT !.page_link = page_link]
            /\ cardFailed' = IF page_link = "" THEN cardFailed \cup {"page_link"} ELSE cardFailed
    /\ tpc' = "image"
    /\ UNCHANGED <<trim_cards, card_idx, trim_data, now, lastOutcome, escaped>>
    /\ UNCHANGED exceptTrims

TrimsCardImage ==
    /\ tpc = "image"
    /\ \E o \in [1..MaxSel -> ImageQueries] :
        LET image_url == CardImages[o]
        IN  /\ trim_info' = [trim_info EXCEPT !.image_url = image_url]
            /\ cardFailed' = IF image_url = "" THEN cardFailed \cup {"image_url"} ELSE cardFailed
    /\ tpc' = "price"
    /\ UNCHANGED <<trim_cards, card_idx, trim_data, now, lastOutcome, escaped>>
    /\ UNCHANGED exceptTrims

TrimsCardPrice ==
    /\ tpc = "price"
    /\ \E o \in [1..MaxSel -> PriceQueries] :
        LET price_text == CardPrices[o]
        IN  /\ trim_info' = [trim_info EXCEPT !.price = price_text]
            /\ cardFailed' = IF price_text = "" THEN cardFailed \cup {"price"} ELSE cardFailed
    /\ tpc' = "specs"
    /\ UNCHANGED <<trim_cards, card_idx, trim_data, now, lastOutcome, escaped>>
    /\ UNCHANGED exceptTrims

\* the specs loop, `return trim_info`, and the caller's
\* `if trim_info and self.validate_trim_data(trim_info): trim_data.append(trim_info)`
TrimsCardSpecs ==
    /\ tpc = "specs"
    /\ \E o \in [1..MaxSel -> SpecsQueries] :
        LET specs == CardSpecs[o]
            done == [trim_info EXCEPT !.specs = specs]
        IN  /\ trim_info' = done
            /\ cardFailed' = IF specs = Absent THEN cardFailed \cup {"specs"} ELSE cardFailed
            /\ IF validate_trim_data(done)
               THEN trim_data' = Append(trim_data, done) /\ lastOutcome' = "recorded"
               ELSE trim_data' = trim_data /\ lastOutcome' = "dropped"
    /\ tpc' = AfterCard(card_idx)
    /\ UNCHANGED <<trim_cards, card_idx, now, escaped>>
    /\ UNCHANGED exceptTrims

NextTrims ==
    \/ TrimsDiscover
    \/ TrimsDiscoverAlternative
    \/ TrimsCardName
    \/ TrimsCardLink
    \/ TrimsCardImage
    \/ TrimsCardPrice
    \/ TrimsCardSpecs

SpecTrims == InitTrims /\ [][NextTrims]_vars

-----------------------------------------------------------------------------
(* C2, C3, C5 on the page loop.                                            *)

\* C2: no two records of a page's trim data carry the same card_unique_id.
C2_UniqueCardIds ==
    \A i, j \in 1..Len(trim_data) :
        i # j => trim_data[i].card_unique_id # trim_data[j].card_unique_id

ExtractedFields == {"car_name", "page_link", "image_url", "price", "specs"}

\* C3: a card whose extraction went through every field with exactly one of
\* them failed is the last record of trim_data, with that field empty and
\* every other field populated.
C3_PartialFailureKept ==
    (lastOutcome \in {"recorded", "dropped"} /\ Cardinality(cardFailed) = 1) =>
        /\ lastOutcome = "recorded"
        /\ trim_data # <<>>
        /\ LET r == trim_data[Len(trim_data)]
           IN  /\ r.card_index = card_idx
               /\ \A f \in ExtractedFields :
                      IF f \in cardFailed THEN r[f] = "" ELSE r[f] \notin {"", Absent}

\* C5: a name resolution in which no selector satisfied ended with a value
\* for car_name and did not raise.
C5_NotFoundNeverRaises ==
    (card_idx > 0 /\ "car_name" \in cardFailed) =>
        (~escaped /\ trim_info.car_name # Absent)

SameIdentity(a, b) == a.text = b.text /\ a.x = b.x /\ a.y = b.y

\* card k of the page has a record in trim_data
Recorded(k) == \E n \in 1..Len(trim_data) : trim_data[n].card_index = k

\* C16: two cards of a page with the same visible text and position get the
\* same unique id, and the second of them is skipped: at most one of the
\* two has a record.
C16_DuplicateSkipped ==
    \A i, j \in 1..Len(trim_cards) :
        (i < j /\ SameIdentity(trim_cards[i].attrs, trim_cards[j].attrs)) =>
            /\ get_card_unique_id_without_clicks(trim_cards[i].attrs)
                   = get_card_unique_id_without_clicks(trim_cards[j].attrs)
            /\ ~(Recorded(i) /\ Recorded(j))

\* the keys extract_trim_info_without_clicks can give a trim record
TrimKeys == {"card_index", "card_unique_id", "car_name", "page_link", "image_url",
             "price", "specs"}

\* C14: every trim record of the page's list holds every key of a trim
\* record; a field for which nothing was found is there with an empty value.
C14_SchemaStable ==
    \A k \in 1..Len(trim_data) :
        /\ trim_data[k].card_index >= 1
        /\ \A f \in TrimKeys \ {"card_index"} : trim_data[k][f] # Absent

\* trim.get(key, '')
GetOrEmpty(t, key) == IF t[key] = Absent THEN "" ELSE t[key]

\* the record save_trim_data writes to nissan_trims_simple.json for a trim
simple_trim(t) ==
    [car_name |-> GetOrEmpty(t, "car_name"), price |-> GetOrEmpty(t, "price"),
     page_link |-> GetOrEmpty(t, "page_link"), image_url |-> GetOrEmpty(t, "image_url"),
     specs |-> GetOrEmpty(t, "specs"), card_unique_id |-> GetOrEmpty(t, "card_unique_id")]

\* CarListProcessor.save_trim_data: the simplified list built from the
\* detailed one
RECURSIVE simplified_data(_)
simplified_data(all) ==
    IF all = <<>> THEN <<>>
    ELSE (IF /\ validate_trim_data(Head(all))
             /\ simple_trim(Head(all)).car_name # ""
             /\ simple_trim(Head(all)).page_link # ""
          THEN <<simple_trim(Head(all))>> ELSE <<>>)
         \o simplified_data(Tail(all))

\* C30: every record of the list the page hands to all_trim_data has a
\* car_name of at least 3 characters and a page_link that starts with
\* 'http'; the simplified output built from the list has as many records,
\* in the same order.
C30_SavedTrimsValid ==
    /\ \A k \in 1..Len(trim_data) :
           /\ Len(trim_data[k].car_name) >= 3
           /\ StartsWith(trim_data[k].page_link, "http")
    /\ Len(simplified_data(trim_data)) = Len(trim_data)
    /\ \A k \in 1..Len(trim_data) :
           simplified_data(trim_data)[k].card_unique_id = trim_data[k].card_unique_id

\* a page of two cards, one of which failed validation and one of which
\* was recorded
C30_Witness ==
    /\ tpc = "done"
    /\ Len(trim_cards) = 2
    /\ Len(trim_data) = 1

-----------------------------------------------------------------------------
(* Specification SpecRun: the entry points, their run loops and Ctrl-C.    *)
(* A unit is one iteration of the loop; its record is its index.           *)

Entries == {"car_list.main", "build_configurator.main", "build_configurator2.main",
            "run_build_workflow", "run_full_process"}

\* the loop an entry point runs first
FirstLoop(e) ==
    CASE e = "car_list.main"            -> "scrape_car_list_from_link"
      [] e = "run_full_process"         -> "scrape_car_list_from_link"
      [] e = "build_configurator.main"  -> "process_build_configurations"
      [] e = "run_build_workflow"       -> "process_build_configurations"
      [] e = "build_configurator2.main" -> "process_vehicle_configurations"

\* the entry point wraps its work in try / except KeyboardInterrupt / finally close()
HandlesInterrupt(e) == e # "run_full_process"

\* where a KeyboardInterrupt can be delivered: between two units only code
\* outside any try or inside `except Exception` handlers runs; inside a unit
\* the code is also inside bare `except:` clauses (selector loops, scrolling,
\* clicking), which catch KeyboardInterrupt as any other exception
InterruptSites(pc) == IF pc = "in_unit" THEN {"plain", "bare_except"} ELSE {"plain"}

InitRun == LocatorIdle /\ TrimsIdle /\ RunIdle /\ ClickIdle /\ LiveIdle /\ StepsIdle

\* the page_link values of the units of an input list; '' is a unit
\* without a link
Links == {"", "https://www.nissanusa.com/altima", "https://www.nissanusa.com/kicks"}

\* the input lists an entry point can hand to its first loop: the cards of
\* the build page carry no link of their own, build_configurator2.main keeps
\* only the trims that have a page_link
InputLists(e) ==
    CASE FirstLoop(e) = "scrape_car_list_from_link"
             -> {[i \in 1..n |-> "card"] : n \in 0..MaxUnits}
      [] FirstLoop(e) = "process_vehicle_configurations"
             -> SeqsUpTo(Links \ {""}, MaxUnits)
      [] OTHER -> SeqsUpTo(Links, MaxUnits)

\* no loop keeping counters
CountingLoopsNone == {}

\* the loops that keep the counters `successful` and `failed`
CountingLoops == {"process_build_configurations"}

\* the loops whose unit either returns its whole record or None
AllOrNothingLoops == {"process_build_configurations", "process_vehicle_configurations"}

\* a failed unit that leaves the loop
NextIndexBreak(out, idx, n) == IF out = "ok" THEN idx ELSE n

\* the index the loop goes on from once a unit has ended: the exception of
\* a failed unit is caught inside the unit and the for loop takes the next
NextIndex(out, idx, n) == idx

\* the entry points that print "Continue? (yes/no): " and read the answer
\* before they create their configurator
AsksConfirmation(e) == e \in {"build_configurator.main", "build_configurator2.main"}

\* what the user can type at the prompt
Answers == {"yes", "y", "YES", " y ", "no", "n", ""}

\* input(...).strip().lower()
StripLower(a) ==
    CASE a = "YES" -> "yes"
      [] a = " y " -> "y"
      [] OTHER     -> a

\* the entry point reads the answer when it asks for one; it returns on any
\* answer but 'yes' or 'y', otherwise it creates the browser and enters its
\* first loop
RunStart ==
    /\ rpc = "idle"
    /\ \E e \in Entries :
        \E ls \in InputLists(e) :
            \E a \in (IF AsksConfirmation(e) THEN Answers ELSE {NotAsked}) :
                /\ entry' = e
                /\ confirm' = (IF AsksConfirmation(e) THEN StripLower(a) ELSE NotAsked)
                /\ IF AsksConfirmation(e) /\ StripLower(a) \notin {"yes", "y"}
                   THEN /\ ls = <<>>
                        /\ rpc' = "cancelled"
                        /\ UNCHANGED <<loop, unit_links, units, browser>>
                   ELSE /\ loop' = FirstLoop(e)
                        /\ unit_links' = ls
                        /\ units' = Len(ls)
                        /\ rpc' = "running"
                        /\ browser' = "open"
    /\ UNCHANGED <<unit_idx, collected, disk, interrupted, afterInt,
                   attempted_units, partial, processed_car_links, successful, failed>>
    /\ UNCHANGED exceptRun

\* the loop takes its next unit: a unit without a link is skipped, and so is
\* a car whose link process_car_links has processed already
RunBeginUnit ==
    /\ rpc = "running"
    /\ unit_idx < units
    /\ unit_idx' = unit_idx + 1
    /\ afterInt' = (afterInt \/ interrupted)
    /\ LET link == unit_links[unit_idx + 1]
       IN  IF link = ""
           THEN /\ failed' = IF loop \in CountingLoops THEN failed + 1 ELSE failed
                /\ UNCHANGED <<rpc, attempted_units>>
           ELSE IF loop = "process_car_links" /\ link \in processed_car_links
           THEN UNCHANGED <<rpc, attempted_units, failed>>
           ELSE /\ rpc' = "in_unit"
                /\ attempted_units' = Append(attempted_units, unit_idx + 1)
                /\ UNCHANGED failed
    /\ UNCHANGED <<entry, loop, browser, units, collected, disk, interrupted,
                   unit_links, partial, processed_car_links, successful, confirm>>
    /\ UNCHANGED exceptRun

\* the unit ends: its record is appended in memory when it produced one; a
\* build page that raised part-way returns None
RunEndUnit ==
    /\ rpc = "in_unit"
    /\ \E out \in {"ok", "failed", "failed_partway"} :
        /\ out = "failed_partway" => loop \in AllOrNothingLoops
        /\ collected' = IF out = "ok" THEN Append(collected, unit_idx) ELSE collected
        /\ partial' = IF out = "failed_partway" THEN partial \cup {unit_idx} ELSE partial
        /\ processed_car_links' =
               IF out = "ok" /\ loop = "process_car_links"
               THEN processed_car_links \cup {unit_links[unit_idx]}
               ELSE processed_car_links
        /\ successful' = IF out = "ok" /\ loop \in CountingLoops
                         THEN successful + 1 ELSE successful
        /\ failed' = IF out # "ok" /\ loop \in CountingLoops THEN failed + 1 ELSE failed
        /\ unit_idx' = NextIndex(out, unit_idx, units)
    /\ rpc' = "running"
    /\ UNCHANGED <<entry, loop, browser, units, disk, interrupted, afterInt,
                   unit_links, attempted_units, confirm>>
    /\ UNCHANGED exceptRun

\* the loop is over: the only save of the run, then either the next loop of
\* run_full_process (over the cars of the list just saved, each with the
\* page_link extracted for it) or close() and return
RunFinish ==
    /\ rpc = "running"
    /\ unit_idx = units
    /\ IF entry = "run_full_process" /\ loop = "scrape_car_list_from_link"
       THEN /\ loop' = "process_car_links"
            /\ \E ls \in [1..Len(collected) -> Links] : unit_links' = ls
            /\ units' = Len(collected)
            /\ unit_idx' = 0
            /\ collected' = <<>>
            /\ disk' = <<>>
            /\ attempted_units' = <<>>
            /\ UNCHANGED <<rpc, browser>>
       ELSE /\ disk' = IF collected # <<>> THEN collected ELSE disk
            /\ rpc' = "done"
            /\ browser' = "closed"
            /\ UNCHANGED <<loop, units, unit_idx, collected, unit_links, attempted_units>>
    /\ UNCHANGED <<entry, interrupted, afterInt, partial, processed_car_links,
                   successful, failed, confirm>>
    /\ UNCHANGED exceptRun

\* Ctrl-C while the run is in progress
RunInterrupt ==
    /\ rpc \in {"running", "in_unit"}
    /\ interrupted' = TRUE
    /\ \E site \in InterruptSites(rpc) :
        IF site = "bare_except"
        THEN UNCHANGED <<rpc, browser>>
        ELSE IF HandlesInterrupt(entry)
        THEN rpc' = "top" /\ browser' = "closed"
        ELSE rpc' = "died" /\ UNCHANGED browser
    /\ UNCHANGED <<entry, loop, units, unit_idx, collected, disk, afterInt,
                   unit_links, attempted_units, partial, processed_car_links, successful, failed,
                   confirm>>
    /\ UNCHANGED exceptRun

NextRun ==
    \/ RunStart
    \/ RunBeginUnit
    \/ RunEndUnit
    \/ RunFinish
    \/ RunInterrupt

SpecRun == InitRun /\ [][NextRun]_vars

-----------------------------------------------------------------------------
(* C4, C8 on the run loops.                                                *)

RunLoops == {"process_build_configurations", "process_car_links",
             "process_vehicle_configurations"}

\* C4: when an interrupt has ended a run loop, the loop's file holds exactly
\* the records of the units completed so far.
C4_CheckpointDurability ==
    (loop \in RunLoops /\ rpc \in {"top", "died"}) => disk = collected

\* C8: once an interrupt has been delivered no further unit is started, and
\* when the process has ended the browser has been closed.
C8_Cancellation ==
    interrupted =>
        /\ ~afterInt
        /\ rpc \in {"done", "top", "died"} => browser = "closed"

-----------------------------------------------------------------------------
(* C17 on the run loops.                                                   *)

UnitIndices == [i \in 1..units |-> i]

Succeeded(j) == \E n \in 1..Len(collected) : collected[n] = j

\* unit i of the input list has a link, which process_car_links has not
\* processed with success for an earlier unit
ShouldAttempt(i) ==
    /\ unit_links[i] # ""
    /\ loop = "process_car_links" =>
           ~\E j \in 1..(i - 1) : unit_links[j] = unit_links[i] /\ Succeeded(j)

C18_PartialPersisted ==
    \A u \in partial :
        /\ rpc \in {"running", "done"} => Succeeded(u)
        /\ rpc = "done" => \E n \in 1..Len(disk) : disk[n] = u

\* C27: in one run of process_car_links no page link is navigated to twice:
\* the units the loop went on to scrape have pairwise different links.
C27_LinkVisitedOnce ==
    loop = "process_car_links" =>
        \A i, j \in 1..Len(attempted_units) :
            i < j => unit_links[attempted_units[i]] # unit_links[attempted_units[j]]

\* C29: in process_build_configurations, between two iterations and at the
\* end, successful + failed is the number of trims examined so far (all of
\* them at the end), the configurations appended are as many as successful,
\* and they are in the order of the trims in the input.
C29_CountersAddUp ==
    (loop = "process_build_configurations" /\ rpc \in {"running", "done"}) =>
        /\ successful + failed = unit_idx
        /\ Len(collected) = successful
        /\ rpc = "done" => successful + failed = units
        /\ \A i, j \in 1..Len(collected) : i < j => collected[i] < collected[j]

\* three trims, the second without a link: two configurations appended,
\* one failure counted
C29_Witness ==
    /\ loop = "process_build_configurations"
    /\ rpc = "done"
    /\ units = 3
    /\ unit_links[2] = ""
    /\ collected = <<1, 3>>
    /\ successful = 2 /\ failed = 1

(* C20: every entry point asks for a go/no-go confirmation before it starts *)
(* a browser session: a browser that was started (open, or closed again)    *)
(* means the user answered 'yes' or 'y' at the prompt of that entry point.  *)
C20_ConfirmedBeforeBrowser ==
    browser # "none" => confirm \in {"yes", "y"}

-----------------------------------------------------------------------------
(* The click routines.  What a routine does to the page is a sequence of   *)
(* events: op is "scroll" (scrollIntoView), "delay" (the settle delay      *)
(* after a scroll), "native" (element.click()), "js" (the script-injected  *)
(* click), "esc" (ESCAPE sent to body), "popup_visible" (the popup check)  *)
(* or "return" (the routine's result); ok is FALSE when the operation      *)
(* raised, and for "return" and "popup_visible" it is the value returned;  *)
(* by is the routine and c tells its invocations apart.                    *)

Ev(op, el, ok, by, c) == [op |-> op, el |-> el, ok |-> ok, by |-> by, c |-> c]

\* the elements of a build page: the attributes the code reads
BtnAdd     == [eid |-> "add", testid |-> "add-btn", id |-> None, data_id |-> None, text |-> " Add to Build ",
               class |-> "sc-fhHczv btn", parent_class |-> "sc-toolbar", accessory |-> FALSE]
BtnAddTwin == [eid |-> "add2", testid |-> "add-btn", id |-> None, data_id |-> None, text |-> "Add to Build",
               class |-> "sc-fhHczv btn", parent_class |-> "sc-toolbar", accessory |-> TRUE]
\* a second element of the toolbar with the attributes of BtnAdd
BtnAddAgain == [eid |-> "add3", testid |-> "add-btn", id |-> None, data_id |-> None, text |-> "Add to Build",
               class |-> "sc-fhHczv btn", parent_class |-> "sc-toolbar", accessory |-> FALSE]
BtnCompare == [eid |-> "compare", testid |-> None, id |-> None, data_id |-> None, text |-> "Compare Trims",
               class |-> "sc-fhHczv", parent_class |-> "sc-toolbar", accessory |-> FALSE]
BtnSave    == [eid |-> "save", testid |-> None, id |-> None, data_id |-> None, text |-> "SAVE",
               class |-> "btn", parent_class |-> "sc-CezhS kLWQDy", accessory |-> TRUE]
BtnWheels  == [eid |-> "wheels", testid |-> None, id |-> None, data_id |-> None, text |-> "Wheels",
               class |-> None, parent_class |-> "sc-12670f55-3", accessory |-> FALSE]
BtnClose   == [eid |-> "close", testid |-> None, id |-> None, data_id |-> None, text |-> "",
               class |-> "close-button", parent_class |-> "modal", accessory |-> FALSE]

\* the h2 title of a feature section and the item below it
TitleExterior == [eid |-> "t-exterior", testid |-> None, id |-> None, data_id |-> None, text |-> "Exterior",
                  class |-> "sc-12670f55-5 iPnYKV", parent_class |-> "rail", accessory |-> FALSE]
FeatureItem   == [eid |-> "rail-item", testid |-> "NGST_QA_rail_section", id |-> None, data_id |-> None,
                  text |-> "Pearl White\nShare this color", class |-> "sc-12670f55-3",
                  parent_class |-> "rail", accessory |-> FALSE]

ButtonPool   == {BtnAdd, BtnAddTwin, BtnAddAgain, BtnCompare, BtnSave, BtnWheels}
CloseButtons == {BtnClose}
\* the feature pass keeps nothing from one title to the next: one title is modelled
TitlePool    == {TitleExterior}
PageElements == ButtonPool \cup CloseButtons \cup TitlePool \cup {FeatureItem}

\* the accessories containers of a page and the buttons found in each
ContainerPool == {[cid |-> "c-save", buttons |-> <<BtnSave, BtnAdd>>],
                  [cid |-> "c-add", buttons |-> <<BtnAddTwin>>],
                  [cid |-> "c-empty", buttons |-> <<>>]}

ElementOf(eid) == CHOOSE b \in PageElements : b.eid = eid

\* s.lower()
UpperCase == "ABCDEFGHIJKLMNOPQRSTUVWXYZ"
LowerCase == "abcdefghijklmnopqrstuvwxyz"

LowerChar(ch) ==
    IF \E i \in 1..Len(UpperCase) : SubSeq(UpperCase, i, i) = ch
    THEN LET i == CHOOSE i \in 1..Len(UpperCase) : SubSeq(UpperCase, i, i) = ch
         IN  SubSeq(LowerCase, i, i)
    ELSE ch

RECURSIVE Lower(_)
Lower(s) == IF s = "" THEN "" ELSE LowerChar(SubSeq(s, 1, 1)) \o Lower(SubSeq(s, 2, Len(s)))

prohibited_contents ==
    <<"change trim", "compare", "share", "save", "print", "email",
      "dealer", "inventory", "contact", "chat", "help", "support",
      "faq", "legal", "privacy", "terms", "cookie", "feedback">>

is_prohibited_button(button_text) ==
    IF button_text = "" THEN FALSE
    ELSE \E i \in 1..Len(prohibited_contents) : Contains(button_text, prohibited_contents[i])

feature_keywords ==
    <<"details", "view", "more", "info", "spec", "color", "drivetrain", "exterior",
      "interior", "accessories", "powertrain", "engine", "wheel">>
feature_classes == <<"sc-12670f55", "feature", "spec", "rail_section">>

is_feature_section_button(b) ==
    \/ \E i \in 1..Len(feature_keywords) : Contains(Lower(Strip(b.text)), feature_keywords[i])
    \/ \E i \in 1..Len(feature_classes) : Contains(b.parent_class, feature_classes[i])

\* the button has an ancestor div of class sc-CezhS kLWQDy
is_accessories_container_button(b) == b.accessory

\* [c for c in parts if 'sc-' in c]
RECURSIVE ScClasses(_)
ScClasses(parts) ==
    IF parts = <<>> THEN <<>>
    ELSE (IF Contains(Head(parts), "sc-") THEN <<Head(parts)>> ELSE <<>>)
         \o ScClasses(Tail(parts))

\* text[:20]
ButtonTextLimit == 20

generate_button_id(b) ==
    LET text == Take(Strip(b.text), ButtonTextLimit)
        classes == IF b.class = None THEN "" ELSE b.class
        specific_classes == ScClasses(Words(classes))
    IN  Join((IF Truthy(b.testid) THEN <<"data-testid:" \o b.testid>> ELSE <<>>)
             \o (IF Truthy(b.id) THEN <<"id:" \o b.id>> ELSE <<>>)
             \o (IF Truthy(b.data_id) THEN <<"data-id:" \o b.data_id>> ELSE <<>>)
             \o (IF text # "" THEN <<"text:" \o hash(text)>> ELSE <<>>)
             \o (IF classes # "" /\ specific_classes # <<>>
                 THEN <<"class:" \o hash(Join(Take(specific_classes, IdParts), "_"))>>
                 ELSE <<>>),
             "|")

\* how the page answers one click operation: whether scrollIntoView, the
\* native click and the script-injected click raise
ClickEnvs == {e \in [scroll_ok : BOOLEAN, native_ok : BOOLEAN, js_ok : BOOLEAN] :
                  e.native_ok => e.js_ok}

\* NissanScraperBase._scroll_to_element: the delay follows the scroll inside
\* the try, so that a scroll that raises is swallowed together with it
scroll_to_element(el, by, c, e) ==
    IF e.scroll_ok
    THEN <<Ev("scroll", el, TRUE, by, c), Ev("delay", el, TRUE, by, c)>>
    ELSE <<Ev("scroll", el, FALSE, by, c)>>

\* native click, then the script-injected click when the native one raised
ClickAttempts(el, by, c, e) ==
    IF e.native_ok THEN <<Ev("native", el, TRUE, by, c)>>
    ELSE <<Ev("native", el, FALSE, by, c), Ev("js", el, e.js_ok, by, c)>>

\* _safe_click with its inner `except:` taken away: when the script click
\* raises as well, the exception leaves the routine and nothing is returned
safe_click_unguarded(el, c, e) ==
    scroll_to_element(el, "_safe_click", c, e)
    \o ClickAttempts(el, "_safe_click", c, e)
    \o (IF e.native_ok \/ e.js_ok THEN <<Ev("return", el, TRUE, "_safe_click", c)>> ELSE <<>>)

\* NissanScraperBase._safe_click
safe_click(el, c, e) ==
    scroll_to_element(el, "_safe_click", c, e)
    \o ClickAttempts(el, "_safe_click", c, e)
    \o <<Ev("return", el, e.native_ok \/ e.js_ok, "_safe_click", c)>>

\* the same routine answering True whatever the two attempts did
safe_click_element_always(el, c, e) ==
    ClickAttempts(el, "_safe_click_element", c, e)
    \o <<Ev("return", el, TRUE, "_safe_click_element", c)>>

\* BuildConfigurator._safe_click_element
safe_click_element(el, c, e) ==
    ClickAttempts(el, "_safe_click_element", c, e)
    \o <<Ev("return", el, e.native_ok \/ e.js_ok, "_safe_click_element", c)>>

\* what close_popup_with_esc meets: no body element ("raises"), no popup
\* after the first ESC ("esc1"), none after the second ("esc2"), a popup
\* that stays with no close button ("stays") or with one ("button")
Popups == {[kind |-> k, cb |-> "none", e |-> [scroll_ok |-> TRUE, native_ok |-> TRUE, js_ok |-> TRUE]] :
               k \in {"raises", "esc1", "esc2", "stays"}}
          \cup {[kind |-> "button", cb |-> b.eid, e |-> e] : b \in CloseButtons, e \in ClickEnvs}

\* BuildConfigurator.try_specific_close_button: the first displayed and
\* enabled close button is clicked with _safe_click
try_specific_close_button(p, c) ==
    IF p.kind = "button" THEN safe_click(p.cb, c, p.e) ELSE <<>>

\* BuildConfigurator.is_popup_visible: the event carries the value returned
is_popup_visible(v, c) == Ev("popup_visible", "popup", v, "is_popup_visible", c)

\* BuildConfigurator.close_popup_with_esc: nothing is returned, and the
\* value of try_specific_close_button is dropped
close_popup_with_esc(p, c) ==
    LET esc == Ev("esc", "body", TRUE, "close_popup_with_esc", c)
    IN  CASE p.kind = "raises" -> <<>>
          [] p.kind = "esc1"   -> <<esc, is_popup_visible(FALSE, c)>>
          [] p.kind = "esc2"   -> <<esc, is_popup_visible(TRUE, c), esc, is_popup_visible(FALSE, c)>>
          [] OTHER             -> <<esc, is_popup_visible(TRUE, c), esc, is_popup_visible(TRUE, c)>>
                                  \o try_specific_close_button(p, c + 1)

\* BuildConfigurator.safe_click_with_esc; shown is
\* button.is_displayed() and button.is_enabled() after the scroll
safe_click_with_esc(el, c, shown, e, p) ==
    LET by == "safe_click_with_esc"
        before == scroll_to_element(el, by, c, e)
    IN  IF ~shown THEN before \o <<Ev("return", el, FALSE, by, c)>>
        ELSE IF ~(e.native_ok \/ e.js_ok)
        THEN before \o ClickAttempts(el, by, c, e) \o <<Ev("return", el, FALSE, by, c)>>
        ELSE before \o ClickAttempts(el, by, c, e) \o close_popup_with_esc(p, c)
             \o <<Ev("return", el, TRUE, by, c)>>

\* the draws that are not read are pinned to these
EnvOk == [scroll_ok |-> TRUE, native_ok |-> TRUE, js_ok |-> TRUE]
NoPopup == [kind |-> "esc1", cb |-> "none", e |-> EnvOk]

\* the value a routine returned: the ok of its last event
Returned(t) == t[Len(t)].ok

\* BuildConfigurator._click_first_button, of a button that is displayed and
\* enabled: scroll, sleep, _safe_click_element, and ESC handling after a click
click_first_button(el, e, p) ==
    LET by == "_click_first_button"
    IN  scroll_to_element(el, by, 1, e) \o <<Ev("delay", el, TRUE, by, 1)>>
        \o safe_click_element(el, 2, e)
        \o (IF e.native_ok \/ e.js_ok THEN close_popup_with_esc(p, 3) ELSE <<>>)

\* what one selector of _click_feature_element yields: nothing displayed and
\* enabled (or a raise), or a first such element and how its clicks go
NoFeatureItem == [found |-> FALSE, el |-> "none", native_ok |-> TRUE, js_ok |-> TRUE]

FeatureOutcomes ==
    {NoFeatureItem}
    \cup {o \in [found : {TRUE}, el : {FeatureItem.eid}, native_ok : BOOLEAN, js_ok : BOOLEAN] :
              o.native_ok => o.js_ok}

\* the selector loop of _click_feature_element: the first element found is
\* clicked natively, else by script; when both raise the bare except moves on
RECURSIVE FeatureLoop(_, _, _, _)
FeatureLoop(title, o, i, title_ok) ==
    LET by == "_click_feature_element"
    IN  IF i > Len(o)
        THEN <<Ev("native", title, title_ok, by, 1), Ev("return", title, title_ok, by, 1)>>
        ELSE IF ~o[i].found THEN FeatureLoop(title, o, i + 1, title_ok)
        ELSE IF o[i].native_ok
        THEN <<Ev("native", o[i].el, TRUE, by, 1), Ev("return", title, TRUE, by, 1)>>
        ELSE IF o[i].js_ok
        THEN <<Ev("native", o[i].el, FALSE, by, 1), Ev("js", o[i].el, TRUE, by, 1),
               Ev("return", title, TRUE, by, 1)>>
        ELSE <<Ev("native", o[i].el, FALSE, by, 1), Ev("js", o[i].el, FALSE, by, 1)>>
             \o FeatureLoop(title, o, i + 1, title_ok)

click_feature_element(title, o, title_ok) == FeatureLoop(title, o, 1, title_ok)

\* BuildConfigurator.click_and_extract_feature_section
click_and_extract_feature_section(title, e, o, title_ok) ==
    LET by == "click_and_extract_feature_section"
    IN  scroll_to_element(title, by, 1, e) \o <<Ev("delay", title, TRUE, by, 1)>>
        \o click_feature_element(title, o, title_ok)

\* how the accessory modal of DynamicBuildConfigurator gets closed by
\* close_modal: it never appeared, or the first method of the configuration
\* presses ESC, or it clicks the first displayed close button
ModalOutcomes == {"timeout", "press_escape", "selector"}

\* DynamicBuildConfigurator.extract_accessory_details and its close_modal
extract_accessory_details(el, native_ok, modal, cb, close_ok) ==
    LET by == "extract_accessory_details"
    IN  <<Ev("native", el, native_ok, by, 1)>>
        \o (IF ~native_ok \/ modal = "timeout" THEN <<>>
            ELSE IF modal = "press_escape" THEN <<Ev("esc", "body", TRUE, "close_modal", 2)>>
            ELSE <<Ev("native", cb, close_ok, "close_modal", 2)>>)

-----------------------------------------------------------------------------
(* Specification SpecClick: one click pass over the elements of a page.    *)
(* The pass meets its elements one by one; which element comes next and    *)
(* how the page answers is drawn at each step.                             *)

Passes == {"click_main_section_buttons", "click_accessories_section_buttons",
           "extract_features_with_clicking", "extract_accessory_details", "_close_popups",
           "click_card_buttons_with_icon_check"}

Bump(r, key) == [r EXCEPT ![key] = @ + 1]

InitClick == LocatorIdle /\ TrimsIdle /\ RunIdle /\ ClickIdle /\ LiveIdle /\ StepsIdle

\* a pass starts: the tallies are zero and no button id has been processed
\* (process_build_configurations clears the set before each trim)
ClickBegin ==
    /\ cpass = "none"
    /\ \E h \in Passes : cpass' = h
    /\ UNCHANGED <<visited, processed_button_ids, click_results, accessories_results, trace,
                   loop_error>>
    /\ UNCHANGED iconVars
    /\ UNCHANGED exceptClick

\* the same checks with the accessories test moved to the front
ButtonVerdictAccessoriesFirst(b) ==
    IF is_accessories_container_button(b) THEN "skipped_accessories"
    ELSE IF is_prohibited_button(Lower(Strip(b.text))) THEN "skipped_prohibited"
    ELSE IF is_feature_section_button(b) THEN "skipped_feature_sections"
    ELSE "click"

\* the checks of _process_single_button that depend on the button alone, in
\* the order of the code: prohibited text, feature section, accessories
ButtonVerdict(b) ==
    IF is_prohibited_button(Lower(Strip(b.text))) THEN "skipped_prohibited"
    ELSE IF is_feature_section_button(b) THEN "skipped_feature_sections"
    ELSE IF is_accessories_container_button(b) THEN "skipped_accessories"
    ELSE "click"

\* both tabulated over the buttons of the page
ButtonIds == [b \in ButtonPool |-> generate_button_id(b)]
ButtonVerdicts == [b \in ButtonPool |-> ButtonVerdict(b)]

\* BuildConfigurator._process_single_button on the next main-section button;
\* button.text is read outside any try, so that a stale button raises out of
\* the for loop into the handler of click_main_section_buttons
ProcessSingleButton ==
    /\ cpass = "click_main_section_buttons"
    /\ loop_error = NoError
    /\ Cardinality(visited) < MaxButtons
    /\ \E b \in ButtonPool, stale \in BOOLEAN :
        /\ b.eid \notin visited
        /\ visited' = visited \cup {b.eid}
        /\ loop_error' = IF stale THEN b.eid ELSE NoError
        /\ IF stale
           THEN /\ trace' = <<>>
                /\ UNCHANGED <<click_results, processed_button_ids>>
           ELSE IF ButtonIds[b] \in processed_button_ids
           THEN /\ click_results' = Bump(click_results, "skipped_already_processed")
                /\ trace' = <<>>
                /\ UNCHANGED processed_button_ids
           ELSE IF ButtonVerdicts[b] # "click"
           THEN /\ click_results' = Bump(click_results, ButtonVerdicts[b])
                /\ trace' = <<>>
                /\ UNCHANGED processed_button_ids
           ELSE \E shown \in BOOLEAN, e \in ClickEnvs, p \in Popups :
                    LET t == safe_click_with_esc(b.eid, 1, shown, e, p)
                    IN  /\ ~shown => e.native_ok
                        /\ (~shown \/ ~e.js_ok) => p = NoPopup
                        /\ trace' = t
                        /\ IF Returned(t)
                           THEN /\ click_results' = Bump(click_results, "clicked")
                                /\ processed_button_ids' =
                                       processed_button_ids \cup {ButtonIds[b]}
                           ELSE /\ click_results' = Bump(click_results, "failed")
                                /\ UNCHANGED processed_button_ids
    /\ UNCHANGED <<cpass, accessories_results>>
    /\ UNCHANGED iconVars
    /\ UNCHANGED exceptClick

\* the loop body of click_accessories_section_buttons: a displayed container
\* gets the first of its buttons clicked by _click_first_button; a stale
\* container raises in container.is_displayed(), outside any per-item try
ProcessSingleContainer ==
    /\ cpass = "click_accessories_section_buttons"
    /\ loop_error = NoError
    /\ Cardinality(visited) < MaxButtons
    /\ \E k \in ContainerPool, stale \in BOOLEAN, displayed \in BOOLEAN, shown \in BOOLEAN,
          e \in ClickEnvs, p \in Popups :
        /\ k.cid \notin visited
        /\ stale => displayed
        /\ (stale \/ ~displayed \/ k.buttons = <<>>) => shown
        /\ (stale \/ ~displayed \/ k.buttons = <<>> \/ ~shown) => e = EnvOk
        /\ (stale \/ ~e.js_ok) => p = NoPopup
        /\ visited' = visited \cup {k.cid}
        /\ loop_error' = IF stale THEN k.cid ELSE NoError
        /\ IF stale \/ ~displayed \/ k.buttons = <<>> \/ ~shown
           THEN trace' = <<>> /\ UNCHANGED accessories_results
           ELSE /\ trace' = click_first_button(k.buttons[1].eid, e, p)
                /\ accessories_results' =
                       IF e.native_ok \/ e.js_ok
                       THEN Bump(Bump(accessories_results, "buttons_clicked"), "containers_processed")
                       ELSE Bump(accessories_results, "buttons_failed")
    /\ UNCHANGED <<cpass, processed_button_ids, click_results>>
    /\ UNCHANGED iconVars
    /\ UNCHANGED exceptClick

\* the loop body of extract_features_with_clicking: a displayed title gets
\* click_and_extract_feature_section, then close_popup_with_esc; a stale
\* title raises in title.is_displayed(), outside any per-item try
ProcessFeatureSection ==
    /\ cpass = "extract_features_with_clicking"
    /\ loop_error = NoError
    /\ Cardinality(visited) < MaxButtons
    /\ \E title \in TitlePool, stale \in BOOLEAN, displayed \in BOOLEAN, e \in ClickEnvs,
          o \in [1..MaxClickSel -> FeatureOutcomes], title_ok \in BOOLEAN, p \in Popups :
        /\ title.eid \notin visited
        /\ e.native_ok
        /\ stale => ~displayed
        /\ loop_error' = IF stale THEN title.eid ELSE NoError
        /\ ~displayed => (e = EnvOk /\ p = NoPopup /\ o = [i \in 1..MaxClickSel |-> NoFeatureItem])
        /\ (~displayed \/ \E i \in 1..MaxClickSel : o[i].found /\ o[i].js_ok) => title_ok
        /\ visited' = visited \cup {title.eid}
        /\ trace' = IF ~displayed THEN <<>>
                    ELSE click_and_extract_feature_section(title.eid, e, o, title_ok)
                         \o close_popup_with_esc(p, 2)
    /\ UNCHANGED <<cpass, processed_button_ids, click_results, accessories_results>>
    /\ UNCHANGED iconVars
    /\ UNCHANGED exceptClick

\* DynamicBuildConfigurator.extract_accessory_details on the next details button
ExtractAccessoryDetails ==
    /\ cpass = "extract_accessory_details"
    /\ Cardinality(visited) < MaxButtons
    /\ \E b \in ButtonPool, native_ok \in BOOLEAN, modal \in ModalOutcomes,
          cb \in CloseButtons, close_ok \in BOOLEAN :
        /\ b.eid \notin visited
        /\ (~native_ok \/ modal # "selector") => close_ok
        /\ ~native_ok => modal = "timeout"
        /\ visited' = visited \cup {b.eid}
        /\ trace' = extract_accessory_details(b.eid, native_ok, modal, cb.eid, close_ok)
    /\ UNCHANGED <<cpass, processed_button_ids, click_results, accessories_results,
                   loop_error>>
    /\ UNCHANGED iconVars
    /\ UNCHANGED exceptClick

\* one selector of NissanScraperBase._close_popups: the first displayed
\* button it finds, if any, is clicked with _safe_click
ClosePopups ==
    /\ cpass = "_close_popups"
    /\ Cardinality(visited) < MaxButtons
    /\ \E found \in BOOLEAN, cb \in CloseButtons, e \in ClickEnvs :
        /\ ~found => e = EnvOk
        /\ visited' = visited \cup {"selector " \o ToString(Cardinality(visited) + 1)}
        /\ trace' = IF found THEN safe_click(cb.eid, 1, e) ELSE <<>>
    /\ UNCHANGED <<cpass, processed_button_ids, click_results, accessories_results,
                   loop_error>>
    /\ UNCHANGED iconVars
    /\ UNCHANGED exceptClick

\* the svg paths SmartCardButtonClicker looks for
PLUS_ICON_PATH == "M17 11h-6v6H9v-6H3V9h6V3h2v6h6z"
MINUS_ICON_PATH == "M17.3 11H2.7V9h14.6z"

\* what find_element('svg') and innerHTML yield: no svg (a raise), an
\* innerHTML of None, or markup with the plus path, the minus path or another
NoSvg == "<no svg>"
SvgOutcomes == {NoSvg, None,
                "<path d='M17 11h-6v6H9v-6H3V9h6V3h2v6h6z'></path>",
                "<path d='M17.3 11H2.7V9h14.6z'></path>",
                "<path d='M12 2L2 22h20z'></path>"}

\* what get_attribute('aria-expanded') yields
AriaRaises == "<raises>"
AriaOutcomes == {AriaRaises, None, "true", "false"}

Observations == [svg : SvgOutcomes, aria : AriaOutcomes]

\* SmartCardButtonClicker.get_button_icon_type; `in` on an innerHTML of None
\* raises as a missing svg does, and the except branch reads aria-expanded
get_button_icon_type(o) ==
    IF o.svg \notin {NoSvg, None}
    THEN IF Contains(o.svg, PLUS_ICON_PATH) THEN "PLUS"
         ELSE IF Contains(o.svg, MINUS_ICON_PATH) THEN "MINUS"
         ELSE "UNKNOWN"
    ELSE IF o.aria = "true" THEN "MINUS"
    ELSE IF o.aria = "false" THEN "PLUS"
    ELSE "UNKNOWN"

\* tabulated over what a button can show
IconTypes == [o \in Observations |-> get_button_icon_type(o)]

\* a click decision that only keeps away from MINUS
ShouldClickUnlessMinus(icon) == icon # "MINUS"

\* `if icon_type == "PLUS"` of process_single_card_button
ShouldClick(icon) == icon = "PLUS"

\* SmartCardButtonClicker.click_button_safely
click_button_safely(el, shown, e) ==
    LET by == "click_button_safely"
        before == scroll_to_element(el, by, 1, e) \o <<Ev("delay", el, TRUE, by, 1)>>
    IN  IF ~shown THEN before \o <<Ev("return", el, FALSE, by, 1)>>
        ELSE before \o ClickAttempts(el, by, 1, e)
             \o <<Ev("return", el, e.native_ok \/ e.js_ok, by, 1)>>

CardButtonPool == {"Drivetrain", "Exterior", "Interior"}

\* SmartCardButtonClicker.process_single_card_button on the next card button
ProcessSingleCardButton ==
    /\ cpass = "click_card_buttons_with_icon_check"
    /\ Cardinality(visited) < MaxButtons
    /\ \E el \in CardButtonPool, o \in Observations :
        /\ el \notin visited
        /\ visited' = visited \cup {el}
        /\ observed' = o
        /\ icon_type' = IconTypes[o]
        /\ IF ShouldClick(IconTypes[o])
           THEN \E shown \in BOOLEAN, e \in ClickEnvs :
                    LET t == click_button_safely(el, shown, e)
                        plus == Bump(card_results, "buttons_with_plus_icon")
                    IN  /\ ~shown => e.native_ok
                        /\ trace' = t
                        /\ card_results' = IF Returned(t) THEN Bump(plus, "buttons_clicked")
                                           ELSE Bump(plus, "buttons_failed")
           ELSE IF IconTypes[o] = "MINUS"
           THEN /\ trace' = <<>>
                /\ card_results' = Bump(Bump(card_results, "buttons_with_minus_icon"),
                                        "buttons_skipped")
           ELSE /\ trace' = <<>>
                /\ card_results' = Bump(card_results, "buttons_skipped")
    /\ UNCHANGED <<cpass, processed_button_ids, click_results, accessories_results,
                   loop_error>>
    /\ UNCHANGED exceptClick

NextClick ==
    \/ ClickBegin
    \/ ProcessSingleButton
    \/ ProcessSingleContainer
    \/ ProcessFeatureSection
    \/ ExtractAccessoryDetails
    \/ ClosePopups
    \/ ProcessSingleCardButton

SpecClick == InitClick /\ [][NextClick]_vars

-----------------------------------------------------------------------------
(* C6, C9, C10 on the click passes.                                        *)

IsClick(ev) == ev.op \in {"native", "js"}

\* the elements whose visible text holds a prohibited content
ProhibitedElements ==
    {b.eid : b \in {x \in PageElements : is_prohibited_button(Lower(Strip(x.text)))}}

BuildConfiguratorPasses == {"click_main_section_buttons", "click_accessories_section_buttons",
                            "extract_features_with_clicking"}

\* C6: no pass of BuildConfigurator completes a click on an element whose
\* visible text holds a prohibited content.
C6_NoProhibitedClick ==
    cpass \in BuildConfiguratorPasses =>
        \A i \in 1..Len(trace) :
            (IsClick(trace[i]) /\ trace[i].ok) => trace[i].el \notin ProhibitedElements

ClickRoutines == {"_safe_click", "_safe_click_element", "safe_click_with_esc"}

\* the click attempts of the invocation that returned with event r
AttemptsOf(r) ==
    {i \in 1..Len(trace) : trace[i].by = r.by /\ trace[i].c = r.c /\ IsClick(trace[i])}

C10_ScrollBeforeClick ==
    \A i \in 1..Len(trace) :
        IsClick(trace[i]) =>
            \E j \in 1..(i - 1) :
                /\ trace[j].op = "scroll" /\ trace[j].ok /\ trace[j].el = trace[i].el
                /\ trace[j + 1].op = "delay"
                /\ \A k \in (j + 1)..(i - 1) :
                       ~(IsClick(trace[k]) /\ trace[k].el # trace[i].el)

\* C19: every container click_accessories_section_buttons has gone over is
\* counted by one of its tallies (the pass keeps no skip count): the
\* containers met are as many as the buttons clicked plus the buttons failed.
C19_EveryContainerCounted ==
    cpass = "click_accessories_section_buttons" =>
        Cardinality(visited)
            = accessories_results.buttons_clicked + accessories_results.buttons_failed

\* C21: the id of a button is in processed_button_ids before the click on it
\* is attempted, whatever the click returns: once _process_single_button has
\* attempted a click, the id of the button it clicked on is in the set.
C21_SeenBeforeActing ==
    cpass = "click_main_section_buttons" =>
        \A k \in 1..Len(trace) :
            (IsClick(trace[k]) /\ trace[k].by = "safe_click_with_esc")
                => ButtonIds[ElementOf(trace[k].el)] \in processed_button_ids

\* the identity keys of the buttons safe_click_with_esc attempted a click on
\* in the step that left the trace t
KeysAttempted(t) ==
    {ButtonIds[ElementOf(t[k].el)] :
         k \in {n \in 1..Len(t) : IsClick(t[n]) /\ t[n].by = "safe_click_with_esc"}}

\* the buttons met so far in the pass that carry the identity key of b
MetWithKeyOf(b) ==
    {a \in ButtonPool : a.eid \in visited /\ ButtonIds[a] = ButtonIds[b]}

\* C22: within one page a click is attempted at most once per identity key,
\* and a button is tallied skipped_already_processed only if a button with
\* the same key was processed earlier on the page: two successive steps of
\* the pass attempt no click for the same key, and a step that adds to
\* skipped_already_processed has met a button with that key before.
C22_OncePerKey ==
    [][(cpass = "click_main_section_buttons" /\ cpass' = cpass) =>
          /\ KeysAttempted(trace) \cap KeysAttempted(trace') = {}
          /\ \A b \in ButtonPool :
                 (/\ b.eid \in visited' \ visited
                  /\ click_results'.skipped_already_processed
                         # click_results.skipped_already_processed)
                 => MetWithKeyOf(b) # {}]_vars

\* the six tallies of click_main_section_buttons
TallyKeys == {"clicked", "failed", "skipped_prohibited", "skipped_feature_sections",
              "skipped_accessories", "skipped_already_processed"}

\* the tallies that the checks of _process_single_button, taken in the order
\* already-processed, prohibited, feature-section, accessories, click, leave
\* open to button b when the set of processed ids is ids
TalliesFor(b, ids) ==
    IF generate_button_id(b) \in ids THEN {"skipped_already_processed"}
    ELSE IF is_prohibited_button(Lower(Strip(b.text))) THEN {"skipped_prohibited"}
    ELSE IF is_feature_section_button(b) THEN {"skipped_feature_sections"}
    ELSE IF is_accessories_container_button(b) THEN {"skipped_accessories"}
    ELSE {"clicked", "failed"}

-----------------------------------------------------------------------------
(* C7 on the icon-checking pass.                                           *)

\* C7: a step of click_card_buttons_with_icon_check attempts a click only on
\* a button it has just classified PLUS; a button classified MINUS or UNKNOWN
\* gets no click and adds one to buttons_skipped and nothing to
\* buttons_clicked.
C7_ClickOnlyPlus ==
    [][(cpass = "click_card_buttons_with_icon_check" /\ visited' # visited) =>
           LET attempted == \E i \in 1..Len(trace') : IsClick(trace'[i])
           IN  /\ attempted => get_button_icon_type(observed') = "PLUS"
               /\ get_button_icon_type(observed') \in {"MINUS", "UNKNOWN"} =>
                      /\ ~attempted
                      /\ card_results'.buttons_skipped = card_results.buttons_skipped + 1
                      /\ card_results'.buttons_clicked = card_results.buttons_clicked]_vars

\* a button showing the plus path was clicked, after one showing neither
\* path was skipped
C7_Witness ==
    /\ cpass = "click_card_buttons_with_icon_check"
    /\ icon_type = "PLUS"
    /\ \E i \in 1..Len(trace) : IsClick(trace[i]) /\ trace[i].ok
    /\ card_results.buttons_clicked = 1
    /\ card_results.buttons_skipped = 1

\* the icon sub-query gave neither the plus nor the minus match: no svg
\* node, no markup, or markup that holds neither path
NoIconMatch(o) ==
    \/ o.svg \in {NoSvg, None}
    \/ ~Contains(o.svg, PLUS_ICON_PATH) /\ ~Contains(o.svg, MINUS_ICON_PATH)

\* C25: when the icon gives no plus/minus match, the button checked last was
\* classified from aria-expanded: 'true' MINUS, 'false' PLUS, UNKNOWN otherwise.
C25_AriaFallback ==
    (cpass = "click_card_buttons_with_icon_check" /\ observed # NotObserved
         /\ NoIconMatch(observed)) =>
        icon_type = (IF observed.aria = "true" THEN "MINUS"
                     ELSE IF observed.aria = "false" THEN "PLUS"
                     ELSE "UNKNOWN")

-----------------------------------------------------------------------------
(* Specification SpecIcon: one card button of the page, which changes what *)
(* it shows when it is clicked, classified by get_button_icon_type.        *)

\* a reader that keeps what the first call saw
ReadButtonMemo(shown_now, read_before) ==
    IF read_before = NotObserved THEN shown_now ELSE read_before

\* what a call of get_button_icon_type reads: find_element and
\* get_attribute are run on the element at every call
ReadButton(shown_now, read_before) == shown_now

LastRead == IF calls = <<>> THEN NotObserved ELSE calls[Len(calls)].read

InitIcon == LocatorIdle /\ TrimsIdle /\ RunIdle /\ ClickIdle /\ LiveIdle /\ StepsIdle

\* the pass meets the button
IconMeet ==
    /\ live = NotObserved
    /\ \E o \in Observations : live' = o
    /\ UNCHANGED calls
    /\ UNCHANGED exceptLive

\* one call of get_button_icon_type on the button
IconClassify ==
    /\ live # NotObserved
    /\ Len(calls) < MaxCalls
    /\ LET o == ReadButton(live, LastRead)
       IN  calls' = Append(calls, [shown |-> live, read |-> o, got |-> IconTypes[o]])
    /\ UNCHANGED live
    /\ UNCHANGED exceptLive

\* the button, classified PLUS, is clicked, and the page changes what it shows
IconClick ==
    /\ calls # <<>>
    /\ calls[Len(calls)].got = "PLUS"
    /\ \E o \in Observations : live' = o
    /\ UNCHANGED calls
    /\ UNCHANGED exceptLive

NextIcon ==
    \/ IconMeet
    \/ IconClassify
    \/ IconClick

SpecIcon == InitIcon /\ [][NextIcon]_vars

\* C13: every call of get_button_icon_type answers for what the button
\* shows at the time of the call: calls on a button showing the same give the
\* same answer, and when the svg held the plus path at one call and holds
\* the minus path at the next, the answers are PLUS and then MINUS.
C13_ClassifyIsPure ==
    /\ \A i \in 1..Len(calls) : calls[i].got = get_button_icon_type(calls[i].shown)
    /\ \A i, j \in 1..Len(calls) :
           calls[i].shown = calls[j].shown => calls[i].got = calls[j].got
    /\ \A i \in 1..(Len(calls) - 1) :
           (/\ Contains(calls[i].shown.svg, PLUS_ICON_PATH)
            /\ Contains(calls[i + 1].shown.svg, MINUS_ICON_PATH))
           => (calls[i].got = "PLUS" /\ calls[i + 1].got = "MINUS")

\* the button showed the plus path at one call and the minus path at the next
C13_Witness ==
    /\ Len(calls) >= 2
    /\ Contains(calls[1].shown.svg, PLUS_ICON_PATH) /\ calls[1].got = "PLUS"
    /\ Contains(calls[2].shown.svg, MINUS_ICON_PATH) /\ calls[2].got = "MINUS"

-----------------------------------------------------------------------------
(* C11 on the interaction routines.                                        *)

InteractionRoutines == {"_safe_click", "safe_click_with_esc", "click_button_safely"}

IsInteraction(ev) == ev.op \in {"scroll", "native", "js", "esc"}

\* the elements a pass can meet on the page
PoolOf(h) ==
    CASE h \in {"click_main_section_buttons", "extract_accessory_details"}
             -> {b.eid : b \in ButtonPool}
      [] h = "click_accessories_section_buttons" -> {k.cid : k \in ContainerPool}
      [] h = "extract_features_with_clicking" -> {t.eid : t \in TitlePool}
      [] h = "click_card_buttons_with_icon_check" -> CardButtonPool
      [] OTHER -> {}

\* the pass has elements left to meet (_close_popups goes by selectors)
MoreToProcess ==
    /\ Cardinality(visited) < MaxButtons
    /\ cpass = "_close_popups" \/ PoolOf(cpass) \ visited # {}

-----------------------------------------------------------------------------
(* C23 on the item loops of BuildConfigurator.                             *)

\* C23: an exception raised while one item is handled is confined to that
\* item: the pass that met it can still take the next item of its list.
C23_ItemFailureConfined ==
    (loop_error # NoError /\ MoreToProcess) => ENABLED NextClick

-----------------------------------------------------------------------------
(* C24 on close_popup_with_esc.                                            *)

\* the positions of the trace at which close_popup_with_esc sent ESCAPE,
\* checked for a popup, and clicked on a close control
EscSent == {k \in 1..Len(trace) : trace[k].op = "esc" /\ trace[k].by = "close_popup_with_esc"}
PopupChecks == {k \in 1..Len(trace) : trace[k].op = "popup_visible"}
CloseClicks ==
    {k \in 1..Len(trace) : /\ IsClick(trace[k]) /\ trace[k].by = "_safe_click"
                            /\ EscSent # {}
                            /\ \A n \in EscSent : n < k}

\* C24: close_popup_with_esc sends ESCAPE once, a second time only if a
\* popup is still visible, clicks a close control only if one is still
\* visible after the second ESCAPE, and then returns; a popup that persists
\* (still visible after the second ESCAPE, no click on a close control gone
\* through) is recorded.
C24_BoundedDismissal ==
    cpass \in BuildConfiguratorPasses =>
        /\ Cardinality(EscSent) <= 2
        /\ \A k \in EscSent :
               (\E n \in EscSent : n < k)
                   => \E v \in PopupChecks :
                          /\ v < k /\ trace[v].ok
                          /\ \E n \in EscSent : n < v
        /\ \A k \in CloseClicks :
               /\ Cardinality(EscSent) = 2
               /\ \A v \in PopupChecks : trace[v].ok
               /\ Cardinality(PopupChecks) = 2
        /\ (/\ Cardinality(PopupChecks) = 2
            /\ \A v \in PopupChecks : trace[v].ok
            /\ ~\E k \in CloseClicks : trace[k].ok)
           => \E k \in 1..Len(trace) : trace[k].op = "record"

-----------------------------------------------------------------------------
(* Specification SpecSteps: one unit of work.  A page routine makes its    *)
(* calls in the order of its code; each call either goes through or meets  *)
(* an exception, which the callee handles itself or lets out to the        *)
(* routine's own handler.                                                  *)

UnitRoutines == {"scrape_main_section_only", "scrape_car_details_without_clicks",
                 "process_single_page"}

\* BuildConfigurator.scrape_main_section_only
MainSectionCalls ==
    <<"driver.get", "handle_initial_popups", "wait_for_main_content", "window.innerHeight",
      "click_accessories_section_buttons", "extract_complete_main_section",
      "click_main_section_buttons", "extract_complete_main_section", "_take_screenshot">>

\* CarListProcessor.scrape_car_details_without_clicks on a page where the
\* primary selectors find `first` cards and the alternative ones `second`
CarDetailsCalls(first, second) ==
    <<"driver.get", "_handle_cookies_popup", "_close_popups", "_scroll_page_gradually",
      "find_trim_cards_without_clicks">>
    \o (IF first = 0 THEN <<"find_trim_cards_alternative_without_clicks">> ELSE <<>>)
    \o [i \in 1..(IF first = 0 THEN second ELSE first) |-> "extract_trim_info_without_clicks"]

\* SmartCardButtonClicker.process_single_page
SinglePageCalls ==
    <<"driver.get", "handle_initial_popups", "wait_for_page_load", "save_screenshot",
      "click_card_buttons_with_icon_check", "click_show_more_buttons", "save_screenshot">>

Program(r, first, second) ==
    CASE r = "scrape_main_section_only" -> MainSectionCalls
      [] r = "scrape_car_details_without_clicks" -> CarDetailsCalls(first, second)
      [] r = "process_single_page" -> SinglePageCalls

\* the calls that are not wrapped in a handler of their own: their exception
\* reaches the `except Exception` of the routine
Unguarded == {"driver.get", "window.innerHeight", "_scroll_page_gradually", "_take_screenshot",
              "save_screenshot"}

\* what a call does on the page
StepKind(call) ==
    CASE call = "driver.get" -> "navigate"
      [] call \in {"handle_initial_popups", "_handle_cookies_popup", "_close_popups"} -> "dismiss"
      [] call \in {"wait_for_main_content", "wait_for_page_load", "window.innerHeight",
                   "_scroll_page_gradually", "find_trim_cards_without_clicks",
                   "find_trim_cards_alternative_without_clicks"} -> "discover"
      [] call \in {"click_accessories_section_buttons", "click_main_section_buttons",
                   "click_card_buttons_with_icon_check", "click_show_more_buttons"} -> "interact"
      [] call \in {"extract_complete_main_section", "extract_trim_info_without_clicks"} -> "extract"
      [] call \in {"_take_screenshot", "save_screenshot"} -> "screenshot"

InitSteps == LocatorIdle /\ TrimsIdle /\ RunIdle /\ ClickIdle /\ LiveIdle /\ StepsIdle

\* the routine is entered for a page
StepsStart ==
    /\ ustatus = "idle"
    /\ \E r \in UnitRoutines, first \in 0..MaxCards, second \in 0..MaxCards :
        /\ r # "scrape_car_details_without_clicks" => (first = 0 /\ second = 0)
        /\ first # 0 => second = 0
        /\ routine' = r
        /\ program' = Program(r, first, second)
    /\ ustatus' = "running"
    /\ UNCHANGED steps
    /\ UNCHANGED exceptSteps

\* the next call of the routine
StepsCall ==
    /\ ustatus = "running"
    /\ Len(steps) < Len(program)
    /\ LET call == program[Len(steps) + 1]
       IN  \E ok \in BOOLEAN :
               /\ steps' = Append(steps, [call |-> call, kind |-> StepKind(call), ok |-> ok])
               /\ ustatus' = IF ~ok /\ call \in Unguarded THEN "raised" ELSE "running"
    /\ UNCHANGED <<routine, program>>
    /\ UNCHANGED exceptSteps

\* the routine returns its data
StepsReturn ==
    /\ ustatus = "running"
    /\ Len(steps) = Len(program)
    /\ ustatus' = "returned"
    /\ UNCHANGED <<routine, program, steps>>
    /\ UNCHANGED exceptSteps

NextSteps ==
    \/ StepsStart
    \/ StepsCall
    \/ StepsReturn

SpecSteps == InitSteps /\ [][NextSteps]_vars

\* the place of a kind of step in the order navigate, dismiss obstructions,
\* discover, interact, extract
Rank(kind) ==
    CASE kind = "navigate" -> 1
      [] kind = "dismiss"  -> 2
      [] kind = "discover" -> 3
      [] kind = "interact" -> 4
      [] kind = "extract"  -> 5

Ordered == {n \in 1..Len(steps) : steps[n].kind # "screenshot"}

\* C26: within one unit the steps come in the order navigate, dismiss
\* obstructions, discover, interact, extract: nothing is discovered, clicked
\* or read before the navigation and the popup dismissal of the unit, and no
\* extraction precedes an interaction.
C26_StepOrder ==
    /\ \A i, j \in Ordered : i < j => Rank(steps[i].kind) <= Rank(steps[j].kind)
    /\ \A j \in Ordered :
           Rank(steps[j].kind) >= 3 =>
               /\ \E i \in 1..(j - 1) : steps[i].kind = "navigate"
               /\ \E i \in 1..(j - 1) : steps[i].kind = "dismiss"

====
